---- MODULE Spec2Model ----
(***************************************************************************)
(* Rank-ELO-Simulator: the Player rating / tier / LP / promo / placement   *)
(* state machine of src/players.py over the tier table of src/ranks.py,    *)
(* and the batch Simulator of src/simulator.py over src/elo_system.py.     *)
(*                                                                         *)
(* Ratings, deltas and decay amounts are Python floats.  Every value the   *)
(* model uses is a multiple of 0.5 (quarter spans of the tier table are    *)
(* 25, 37.5 and 75), so they are kept exactly as integers counting halves: *)
(* a rating r is stored as r * U with U = 2.                               *)
(***************************************************************************)
EXTENDS Integers, Sequences, FiniteSets, TLC

U == 2

Max(a, b) == IF a >= b THEN a ELSE b
Min(a, b) == IF a <= b THEN a ELSE b

(***************************************************************************)
(* Bounds of the model.                                                    *)
(***************************************************************************)
\* record_match calls per behaviour (the length of the history)
MaxHistory == 1
\* grid points of the rating_to_tier evaluations, counted from 0
MaxProbes == 92
\* calls that would leave more LP than this are not made
MaxLp == 200
\* promo series entered per behaviour
MaxSeries == 1
\* record_match calls per behaviour of a placement season
MaxMatches == 2
\* largest placement_games_required a player is created with
MaxPlacementRequired == 1
\* largest number of matches asked of run_batch
MaxBatch == 2
\* largest roster a Simulator is built on
MaxRoster == 2

(***************************************************************************)
(* src/ranks.py                                                            *)
(***************************************************************************)
TIERS == << [name |-> "Iron",        min |-> 1000 * U],
            [name |-> "Bronze",      min |-> 1100 * U],
            [name |-> "Silver",      min |-> 1200 * U],
            [name |-> "Gold",        min |-> 1300 * U],
            [name |-> "Platinum",    min |-> 1400 * U],
            [name |-> "Diamond",     min |-> 1550 * U],
            [name |-> "Master",      min |-> 1700 * U],
            [name |-> "Grandmaster", min |-> 1850 * U],
            [name |-> "Challenger",  min |-> 2000 * U] >>

DIVISIONS == << "IV", "III", "II", "I" >>

TIER_COLORS == [ Iron |-> "#6b6b6b", Bronze |-> "#cd7f32", Silver |-> "#c0c0c0",
                 Gold |-> "#ffd700", Platinum |-> "#2ee8c7", Diamond |-> "#4cc9ff",
                 Master |-> "#a64dff", Grandmaster |-> "#ff6b6b",
                 Challenger |-> "#ffb86b" ]

\* Python indexes from 0, TLA+ sequences from 1.
NumTiers == Len(TIERS)
TierAt(i) == TIERS[i + 1]
DivAt(i) == DIVISIONS[i + 1]

\* next((i for i, t in enumerate(TIERS) if t[0] == name), 0)
TierIndex(name) ==
    IF \E i \in 0..(NumTiers - 1) : TierAt(i).name = name
    THEN CHOOSE i \in 0..(NumTiers - 1) : TierAt(i).name = name
    ELSE 0

\* DIVISIONS.index(d), with the ValueError fallback len(DIVISIONS) - 1
DivIndex(d) ==
    IF \E i \in 0..3 : DivAt(i) = d
    THEN CHOOSE i \in 0..3 : DivAt(i) = d
    ELSE Len(DIVISIONS) - 1

\* The loop of rating_to_tier: the first tier whose successor's minimum is
\* above the rating, the last tier when there is none.
LocateTier(r) ==
    IF \E i \in 0..(NumTiers - 2) : r < TierAt(i + 1).min
    THEN CHOOSE i \in 0..(NumTiers - 2) :
            /\ r < TierAt(i + 1).min
            /\ \A j \in 0..(i - 1) : ~(r < TierAt(j + 1).min)
    ELSE NumTiers - 1

\* min(3, int(rel * 4)) with rel = max(0.0, min(1.0, (rating - start) / span))
DivisionBucket(r, start, span) ==
    IF r <= start THEN 0
    ELSE IF r - start >= span THEN 3
    ELSE Min(3, (4 * (r - start)) \div span)

DivisionOfBucket(division_index) == DivAt(Max(0, 3 - division_index))

\* rating_to_tier, lines 53-66: the division of a rating in the tier at idx
division_of(idx, r) ==
    IF idx + 1 < NumTiers
    THEN IF TierAt(idx + 1).min - TierAt(idx).min <= 0
         THEN "I"
         ELSE DivisionOfBucket(DivisionBucket(r, TierAt(idx).min,
                                              TierAt(idx + 1).min - TierAt(idx).min))
    ELSE "I"

\* rating_to_tier, lines 52-68, for the tier name the loop ends with
classify(tier_name, r) ==
    [tier |-> tier_name,
     division |-> division_of(TierIndex(tier_name), r),
     color |-> TIER_COLORS[tier_name]]

rating_to_tier(r) == classify(TierAt(LocateTier(r)).name, r)

(***************************************************************************)
(* src/players.py: class Player.  A player is a record; each method is the *)
(* function from the player before the call to the player after it, and    *)
(* each block of a method is a function of the same kind.                  *)
(***************************************************************************)
MIN_RATING == 100 * U
DEFAULT_RATING == 1500 * U

\* result: 1.0 win, 0.5 draw, 0.0 loss, in halves like the ratings
WIN == U
DRAW == U \div 2
LOSS == 0

\* self.tier = rating_to_tier(self.rating)
recompute_tier(p) == [p EXCEPT !.tier = rating_to_tier(p.rating)]

\* enter_promo with the "+ 1" of the majority forgotten
enter_promo_half(p, best_of) ==
    [p EXCEPT !.in_promo = TRUE,
              !.promo_games_left = best_of,
              !.promo_wins = 0,
              !.promo_needed = best_of \div 2]

\* Player.enter_promo(best_of)
enter_promo(p, best_of) ==
    [p EXCEPT !.in_promo = TRUE,
              !.promo_games_left = best_of,
              !.promo_wins = 0,
              !.promo_needed = (best_of \div 2) + 1]

\* promote_to_next_division, lines 176-184: a higher division of the same tier
\* (part = span / 4.0 if span > 0 else 1.0)
promote_within_tier(r, current_tier, tier_min, span, new_div) ==
    [tier |-> current_tier,
     division |-> new_div,
     rating |-> tier_min
                + (IF span > 0 THEN span \div 4 ELSE 1 * U) * (3 - DivIndex(new_div))
                + 10 * U]

\* promote_to_next_division, lines 172-196: new_tier, new_div, new_rating
promote_target(r, current_tier, current_div, idx, div_idx) ==
    IF div_idx > 0
    THEN promote_within_tier(r, current_tier, TierAt(idx).min,
                             IF idx + 1 < NumTiers
                             THEN TierAt(idx + 1).min - TierAt(idx).min
                             ELSE 300 * U,
                             DivAt(div_idx - 1))
    ELSE IF idx + 1 < NumTiers
         THEN [tier |-> TierAt(idx + 1).name,
               division |-> DivAt(Len(DIVISIONS) - 1),
               rating |-> TierAt(idx + 1).min + 10 * U]
         ELSE [tier |-> current_tier,
               division |-> current_div,
               rating |-> r + 30 * U]

\* promote_to_next_division, lines 198-199
promote_store(p, new) ==
    [p EXCEPT !.rating = new.rating,
              !.tier = [tier |-> new.tier, division |-> new.division,
                        color |-> p.tier.color]]

\* Player.promote_to_next_division
promote_to_next_division(p) ==
    promote_store(p, promote_target(p.rating, p.tier.tier, p.tier.division,
                                    TierIndex(p.tier.tier),
                                    DivIndex(p.tier.division)))

\* resolve_promo, lines 145-149
reset_promo(p) ==
    [p EXCEPT !.in_promo = FALSE,
              !.promo_games_left = 0,
              !.promo_wins = 0,
              !.promo_needed = 0]

\* resolve_promo, lines 151-153
promo_success(p) == [promote_to_next_division(p) EXCEPT !.lp = 0]

\* resolve_promo, lines 154-157
promo_failure(p) ==
    [p EXCEPT !.lp = Max(0, p.lp - 50),
              !.rating = Max(MIN_RATING, p.rating - 10 * U)]

\* resolve_promo that asks for more wins than promo_needed
resolve_promo_strict(p) ==
    recompute_tier(IF p.promo_wins > p.promo_needed
                   THEN promo_success(reset_promo(p))
                   ELSE promo_failure(reset_promo(p)))

\* Player.resolve_promo
resolve_promo(p) ==
    recompute_tier(IF p.promo_wins >= p.promo_needed
                   THEN promo_success(reset_promo(p))
                   ELSE promo_failure(reset_promo(p)))

\* apply_lp, lines 117-119: one game of the series
promo_game(p, amount) ==
    [p EXCEPT !.promo_wins = IF amount > 0 THEN p.promo_wins + 1 ELSE p.promo_wins,
              !.promo_games_left = Max(0, p.promo_games_left - 1)]

\* apply_lp, lines 120-122
promo_game_end(p) == IF p.promo_games_left = 0 THEN resolve_promo(p) ELSE p

\* apply_lp, lines 124-126
add_lp(p, amount) == [p EXCEPT !.lp = IF p.lp + amount < 0 THEN 0 ELSE p.lp + amount]

\* apply_lp, lines 128-133
lp_overflow(p) ==
    IF p.lp >= 100
    THEN [enter_promo(p, 3) EXCEPT !.lp = Max(0, p.lp - 100)]
    ELSE p

\* Player.apply_lp
apply_lp(p, amount) ==
    IF p.in_promo
    THEN promo_game_end(promo_game(p, amount))
    ELSE lp_overflow(add_lp(p, amount))

\* apply_decay without the max(_MIN_RATING, ...) clamp
apply_decay_unclamped(p, decay_amount) ==
    IF decay_amount <= 0
    THEN p
    ELSE recompute_tier([p EXCEPT !.rating = p.rating - decay_amount])

\* Player.apply_decay
apply_decay(p, decay_amount) ==
    IF decay_amount <= 0
    THEN p
    ELSE recompute_tier([p EXCEPT !.rating = Max(MIN_RATING, p.rating - decay_amount)])

\* track_streak that leaves the streak standing after a non-win
track_streak_kept(p, t, result) ==
    IF result = WIN
    THEN [p EXCEPT !.last_active = t,
                   !.win_streak = p.win_streak + 1,
                   !.wins = p.wins + 1]
    ELSE [p EXCEPT !.last_active = t,
                   !.losses = IF result = LOSS THEN p.losses + 1 ELSE p.losses]

\* record_match, lines 70-79; t is the value time.time() returns
track_streak(p, t, result) ==
    IF result = WIN
    THEN [p EXCEPT !.last_active = t,
                   !.win_streak = p.win_streak + 1,
                   !.wins = p.wins + 1]
    ELSE [p EXCEPT !.last_active = t,
                   !.win_streak = 0,
                   !.losses = IF result = LOSS THEN p.losses + 1 ELSE p.losses]

\* record_match, lines 81-82
change_rating(p, delta) == [p EXCEPT !.rating = Max(MIN_RATING, p.rating + delta)]

\* record_match, lines 84-86
handle_lp(p, lp_change) == IF lp_change # 0 THEN apply_lp(p, lp_change) ELSE p

\* count_placement without the "and not self.placed" guard
count_placement_always(p, result, placement) ==
    IF placement
    THEN [p EXCEPT
            !.placement_games_played = p.placement_games_played + 1,
            !.placement_wins = IF result = WIN
                               THEN p.placement_wins + 1
                               ELSE p.placement_wins,
            !.placed = IF p.placement_games_played + 1 >= p.placement_games_required
                       THEN TRUE ELSE p.placed]
    ELSE p

\* record_match, lines 88-94
count_placement(p, result, placement) ==
    IF placement /\ ~p.placed
    THEN [p EXCEPT
            !.placement_games_played = p.placement_games_played + 1,
            !.placement_wins = IF result = WIN
                               THEN p.placement_wins + 1
                               ELSE p.placement_wins,
            !.placed = IF p.placement_games_played + 1 >= p.placement_games_required
                       THEN TRUE ELSE p.placed]
    ELSE p

\* append_history that logs decisive results only
append_history_decisive(p, opponent_id, result, delta) ==
    IF result = DRAW
    THEN p
    ELSE [p EXCEPT !.history = Append(p.history,
                                      [time |-> p.last_active,
                                       opponent |-> opponent_id,
                                       result |-> result,
                                       delta |-> delta])]

\* record_match, lines 99-107
append_history(p, opponent_id, result, delta) ==
    [p EXCEPT !.history = Append(p.history,
                                 [time |-> p.last_active,
                                  opponent |-> opponent_id,
                                  result |-> result,
                                  delta |-> delta])]

\* Player.record_match
record_match(p, t, opponent_id, result, delta, lp_change, placement) ==
    append_history(
        recompute_tier(
            count_placement(
                handle_lp(change_rating(track_streak(p, t, result), delta), lp_change),
                result, placement)),
        opponent_id, result, delta)

\* Player(id, name, rating=..., placement_games_required=...): the dataclass
\* defaults; tier comes from its default_factory whatever the rating is.
NewPlayer(t, r, required) ==
    [rating |-> r,
     win_streak |-> 0,
     last_active |-> t,
     history |-> << >>,
     tier |-> rating_to_tier(DEFAULT_RATING),
     placed |-> FALSE,
     placement_games_played |-> 0,
     placement_games_required |-> required,
     placement_wins |-> 0,
     lp |-> 0,
     in_promo |-> FALSE,
     promo_games_left |-> 0,
     promo_wins |-> 0,
     promo_needed |-> 0,
     wins |-> 0,
     losses |-> 0]

(***************************************************************************)
(* State: the fields of one Player; the clock time.time() reads; the      *)
(* number of promo series the player has entered; the arguments and the    *)
(* results of a function evaluated on its own (a pair of rating_to_tier     *)
(* calls, or one two_player_updates call).                                  *)
(***************************************************************************)
VARIABLES rating, win_streak, last_active, history, tier,
          placed, placement_games_played, placement_games_required, placement_wins,
          lp, in_promo, promo_games_left, promo_wins, promo_needed,
          wins, losses,
          now, series,
          probe, probed,
          sim, players, rng, pc, matches, seed, left, records,
          run, roster0, first,
          disk, save

playerVars == << rating, win_streak, last_active, history, tier,
                 placed, placement_games_played, placement_games_required,
                 placement_wins, lp, in_promo, promo_games_left, promo_wins,
                 promo_needed, wins, losses >>
\* The Simulator (its configuration and its roster), the state of the random
\* module, the frame of run_batch (position, arguments, rounds left, records),
\* and the bookkeeping of two runs on the same roster: which run this is, the
\* roster both start from, and what the first run returned and left behind.
simVars == << sim, players, rng, pc, matches, seed, left, records,
              run, roster0, first >>
\* The files save_players writes, and the frame of a save_players call: its
\* position, its argument, the payload, and what the target held at the call.
fsVars == << disk, save >>
vars == << playerVars, now, series, probe, probed, simVars, fsVars >>

\* No Simulator has been built.
NoSimulator ==
    /\ sim = [k |-> 0, arcade_mode |-> FALSE, streak_bonus_pct |-> 0,
              decay_per_day |-> 0]
    /\ players = << >>
    /\ rng = 0
    /\ pc = "none"
    /\ matches = 0
    /\ seed = << >>
    /\ left = 0
    /\ records = << >>
    /\ run = 0
    /\ roster0 = << >>
    /\ first = [records |-> << >>, players |-> << >>]

\* No save_players call has been made.
NoSave ==
    /\ disk = [path |-> [exists |-> FALSE, entries |-> << >>, complete |-> FALSE],
               tmp |-> [exists |-> FALSE, entries |-> << >>, complete |-> FALSE]]
    /\ save = [pc |-> "none", players |-> << >>, payload |-> << >>,
               persisted |-> [exists |-> FALSE, entries |-> << >>, complete |-> FALSE]]

\* The player the variables hold.
Self ==
    [rating |-> rating,
     win_streak |-> win_streak,
     last_active |-> last_active,
     history |-> history,
     tier |-> tier,
     placed |-> placed,
     placement_games_played |-> placement_games_played,
     placement_games_required |-> placement_games_required,
     placement_wins |-> placement_wins,
     lp |-> lp,
     in_promo |-> in_promo,
     promo_games_left |-> promo_games_left,
     promo_wins |-> promo_wins,
     promo_needed |-> promo_needed,
     wins |-> wins,
     losses |-> losses]

\* The variables hold player q.
Holds(q, r, ws, la, h, t, pl, pgp, pgr, pw, l, ip, gl, prw, pn, w, ls) ==
    /\ r = q.rating
    /\ ws = q.win_streak
    /\ la = q.last_active
    /\ h = q.history
    /\ t = q.tier
    /\ pl = q.placed
    /\ pgp = q.placement_games_played
    /\ pgr = q.placement_games_required
    /\ pw = q.placement_wins
    /\ l = q.lp
    /\ ip = q.in_promo
    /\ gl = q.promo_games_left
    /\ prw = q.promo_wins
    /\ pn = q.promo_needed
    /\ w = q.wins
    /\ ls = q.losses

\* The call leaves the player as q.
Becomes(q) ==
    Holds(q, rating', win_streak', last_active', history', tier', placed',
          placement_games_played', placement_games_required', placement_wins',
          lp', in_promo', promo_games_left', promo_wins', promo_needed',
          wins', losses')

(***************************************************************************)
(* Inputs of the calls.                                                    *)
(***************************************************************************)
InitRatings == { DEFAULT_RATING, 1000 * U, 2050 * U }
Opponents == { 2 }
Results == { WIN, DRAW, LOSS }
Deltas == { -1500 * U, 16 * U }
LpChanges == { 0, 50 }
LpAmounts == { -50, 0, 50, 250 }
DecayAmounts == { -5 * U, 0, 700 * U }

Init ==
    /\ now = 0
    /\ series = 0
    /\ \E r \in InitRatings :
          Holds(NewPlayer(now, r, 0),
                rating, win_streak, last_active, history, tier, placed,
                placement_games_played, placement_games_required, placement_wins,
                lp, in_promo, promo_games_left, promo_wins, promo_needed,
                wins, losses)
    /\ probe = << >>
    /\ probed = << >>
    /\ NoSimulator
    /\ NoSave

RecordMatchCall(opponent_id, result, delta, lp_change, placement) ==
    /\ now' = now + 1
    /\ Becomes(record_match(Self, now', opponent_id, result, delta, lp_change, placement))
    /\ lp' <= MaxLp
    /\ series' = IF in_promo' /\ ~in_promo THEN series + 1 ELSE series
    /\ series' <= MaxSeries
    /\ UNCHANGED << fsVars, probe, probed, simVars >>

RecordMatch ==
    \E opponent_id \in Opponents, result \in Results, delta \in Deltas,
       lp_change \in LpChanges, placement \in BOOLEAN :
          /\ Len(history) < MaxHistory
          /\ RecordMatchCall(opponent_id, result, delta, lp_change, placement)

ApplyLpCall(amount) ==
    /\ Becomes(apply_lp(Self, amount))
    /\ lp' <= MaxLp
    /\ series' = IF in_promo' /\ ~in_promo THEN series + 1 ELSE series
    /\ series' <= MaxSeries
    /\ UNCHANGED << fsVars, now, probe, probed, simVars >>

ApplyLp == \E amount \in LpAmounts : ApplyLpCall(amount)

ApplyDecayCall(decay_amount) ==
    /\ Becomes(apply_decay(Self, decay_amount))
    /\ UNCHANGED << fsVars, now, series, probe, probed, simVars >>

ApplyDecay == \E decay_amount \in DecayAmounts : ApplyDecayCall(decay_amount)

Next == RecordMatch \/ ApplyLp \/ ApplyDecay

Spec == Init /\ [][Next]_vars

(***************************************************************************)
(* rating_to_tier on its own: two ratings r1 <= r2 drawn from a grid of    *)
(* 12.5 rating points that spans the tier table, classified in one step.   *)
(***************************************************************************)
ProbeBase == 950 * U
ProbeStep == (25 * U) \div 2
\* the ratings the documentation classifies by hand
SampleRatings == { 1000 * U, 1995 * U }
ProbeRatings == { ProbeBase + k * ProbeStep : k \in 0..MaxProbes } \cup SampleRatings

InitRanks ==
    /\ now = 0
    /\ series = 0
    /\ Holds(NewPlayer(now, DEFAULT_RATING, 0),
             rating, win_streak, last_active, history, tier, placed,
             placement_games_played, placement_games_required, placement_wins,
             lp, in_promo, promo_games_left, promo_wins, promo_needed,
             wins, losses)
    /\ probe \in { pr \in ProbeRatings \X ProbeRatings : pr[1] <= pr[2] }
    /\ probed = << >>
    /\ NoSimulator
    /\ NoSave

Classify ==
    /\ probed = << >>
    /\ probed' = << rating_to_tier(probe[1]), rating_to_tier(probe[2]) >>
    /\ UNCHANGED << fsVars, playerVars, now, series, probe, simVars >>

NextRanks == Classify

SpecRanks == InitRanks /\ [][NextRanks]_vars

(***************************************************************************)
(* A placement season: one player created with up to MaxPlacementRequired  *)
(* required placement games plays up to MaxMatches matches, placement or   *)
(* not, with LP changes that start and play promo series, and is decayed.  *)
(***************************************************************************)
SeasonDeltas == { 16 * U }
SeasonLpChanges == { 0, 100 }
SeasonLpAmounts == { 0, 100 }
SeasonDecayAmounts == { 0, 2000 * U }

InitSeason ==
    /\ now = 0
    /\ series = 0
    /\ \E required \in 0..MaxPlacementRequired :
          Holds(NewPlayer(now, DEFAULT_RATING, required),
                rating, win_streak, last_active, history, tier, placed,
                placement_games_played, placement_games_required, placement_wins,
                lp, in_promo, promo_games_left, promo_wins, promo_needed,
                wins, losses)
    /\ probe = << >>
    /\ probed = << >>
    /\ NoSimulator
    /\ NoSave

SeasonMatch ==
    \E opponent_id \in Opponents, result \in Results, delta \in SeasonDeltas,
       lp_change \in SeasonLpChanges, placement \in BOOLEAN :
          /\ Len(history) < MaxMatches
          /\ RecordMatchCall(opponent_id, result, delta, lp_change, placement)

SeasonLp == \E amount \in SeasonLpAmounts : ApplyLpCall(amount)

SeasonDecay == \E decay_amount \in SeasonDecayAmounts : ApplyDecayCall(decay_amount)

NextSeason == SeasonMatch \/ SeasonLp \/ SeasonDecay

SpecSeason == InitSeason /\ [][NextSeason]_vars

(***************************************************************************)
(* src/elo_system.py.  Probabilities are kept in thousandths, streak        *)
(* bonuses in hundredths, deltas in halves of a rating point.               *)
(***************************************************************************)
\* 1000 / (1 + 10 ** (d / 400)) for d = -800, -700, ..., 800
ExpectedTable ==
    << 990, 983, 969, 947, 909, 849, 760, 640, 500,
       360, 240, 151, 91, 53, 31, 17, 10 >>

\* expected_score: the logistic curve read at the nearest hundred rating
\* points of rating_b - rating_a, differences beyond 800 read at 800
expected_score(rating_a, rating_b) ==
    ExpectedTable[(Max(-800 * U, Min(800 * U, rating_b - rating_a)) + 850 * U)
                      \div (100 * U) + 1]

\* elo_delta, line 18
base_delta(rating_a, rating_b, result, k) ==
    (k * (result * 500 - expected_score(rating_a, rating_b)) * U) \div 1000

\* elo_delta
elo_delta(rating_a, rating_b, result, k, streak_bonus) ==
    IF base_delta(rating_a, rating_b, result, k) > 0 /\ streak_bonus # 0
    THEN (base_delta(rating_a, rating_b, result, k) * (100 + streak_bonus)) \div 100
    ELSE base_delta(rating_a, rating_b, result, k)

\* two_player_updates that computes each side's delta on its own
two_player_updates_each(rating_a, rating_b, result_a, k, streak_bonus_a, streak_bonus_b) ==
    << elo_delta(rating_a, rating_b, result_a, k, streak_bonus_a),
       elo_delta(rating_b, rating_a, WIN - result_a, k, streak_bonus_b) >>

\* two_player_updates
two_player_updates(rating_a, rating_b, result_a, k, streak_bonus_a, streak_bonus_b) ==
    << elo_delta(rating_a, rating_b, result_a, k, streak_bonus_a),
       0 - elo_delta(rating_a, rating_b, result_a, k, streak_bonus_a) >>

(***************************************************************************)
(* src/simulator.py: class Simulator.  The random module is a generator    *)
(* with a small state: seeding fixes the state, every draw reads it and     *)
(* moves it on.  The clock counts days and may or may not have advanced     *)
(* when a match or a decay pass reads it.                                   *)
(***************************************************************************)
RngStates == 0 .. 15

\* random.seed(seed)
seed_state(s) == (7 * s + 1) % Cardinality(RngStates)

\* the generator after one draw
rng_next(s) == (5 * s + 3) % Cardinality(RngStates)

\* random.sample(self.players, 2): positions of the two players drawn
sample_first(s, n) == ((s \div 2) % n) + 1
sample_rest(s, n) == ((rng_next(s) \div 2) % (n - 1)) + 1
sample_second(s, n) ==
    IF sample_rest(s, n) >= sample_first(s, n)
    THEN sample_rest(s, n) + 1
    ELSE sample_rest(s, n)

\* random.random() < pa, the draw being s / 16 and pa in thousandths
draw_below(s, pa) == s * 1000 < pa * Cardinality(RngStates)

\* Player(id=..., name=..., rating=...)
Player(id, name, t, r, required) ==
    [id |-> id, name |-> name] @@ NewPlayer(t, r, required)

\* simulate_match, lines 40-42
streak_bonus_of(s, p) ==
    IF s.arcade_mode THEN s.streak_bonus_pct * p.win_streak ELSE 0

\* a record_match call that hands the simulator an LP change
record_side_lp(p, t, opponent_id, result, delta) ==
    record_match(p, t, opponent_id, result, delta, 20, FALSE)

\* simulate_match, lines 49-50: lp_change and placement keep their defaults
record_side(p, t, opponent_id, result, delta) ==
    record_match(p, t, opponent_id, result, delta, 0, FALSE)

\* pick_matchmaking_pair on the current roster and generator
PairA == players[sample_first(rng, Len(players))]
PairB == players[sample_second(rng, Len(players))]

\* simulate_match, lines 30-38: the generator at random.random(), the results
DrawState == rng_next(rng_next(rng))
ResultA ==
    IF draw_below(DrawState, expected_score(PairA.rating, PairB.rating))
    THEN WIN ELSE LOSS
ResultB == IF ResultA = WIN THEN LOSS ELSE WIN

\* simulate_match, lines 44-46
MatchDeltas ==
    two_player_updates(PairA.rating, PairB.rating, ResultA, sim.k,
                       streak_bonus_of(sim, PairA), streak_bonus_of(sim, PairB))

\* simulate_match, lines 49-50: the two players after the match read at t
AfterA(t) == record_side(PairA, t, PairB.id, ResultA, MatchDeltas[1])
AfterB(t) == record_side(PairB, t, PairA.id, ResultB, MatchDeltas[2])

\* simulate_match, lines 52-60
MatchRecord(t) ==
    [time |-> t,
     player_a |-> PairA.id,
     player_b |-> PairB.id,
     result_a |-> ResultA,
     delta_a |-> MatchDeltas[1],
     rating_a |-> AfterA(t).rating,
     rating_b |-> AfterB(t).rating]

\* range(matches + 1)
batch_rounds_inclusive(n) == Max(n + 1, 0)

\* run_batch, line 67: range(matches)
batch_rounds(n) == Max(n, 0)

\* the decay pass without the inactivity threshold
decay_one_eager(s, p, t, inactive_seconds) ==
    IF s.decay_per_day > 0
    THEN apply_decay(p, s.decay_per_day * (t - p.last_active))
    ELSE p

\* Simulator.apply_decay, lines 79-84, for one player; a day is the clock's unit
decay_one(s, p, t, inactive_seconds) ==
    IF t - p.last_active > inactive_seconds /\ s.decay_per_day > 0
    THEN apply_decay(p, s.decay_per_day * (t - p.last_active))
    ELSE p

\* Inputs of the simulator.
PlayerNames == << "ann", "bob", "cyd", "dee" >>
\* a new player, and a player created at 1000 who then earned 150 LP
Templates(i) ==
    { Player(i, PlayerNames[i], 0, DEFAULT_RATING, 0),
      apply_lp(Player(i, PlayerNames[i], 0, 1000 * U, 0), 150) }
Rosters ==
    UNION { { r \in [1 .. n -> UNION { Templates(i) : i \in 1 .. n }] :
                \A i \in 1 .. n : r[i] \in Templates(i) } : n \in 0 .. MaxRoster }
Configs ==
    { [k |-> 32, arcade_mode |-> FALSE, streak_bonus_pct |-> 0, decay_per_day |-> 0],
      [k |-> 32, arcade_mode |-> TRUE, streak_bonus_pct |-> 10, decay_per_day |-> 10 * U] }
Seeds == { << >>, << 42 >> }
RngStarts == { 3, 12 }
BatchSizes == -1 .. MaxBatch
Thresholds == { -1, 0, 1 }

InitBatch ==
    /\ now = 0
    /\ series = 0
    /\ Holds(NewPlayer(now, DEFAULT_RATING, 0),
             rating, win_streak, last_active, history, tier, placed,
             placement_games_played, placement_games_required, placement_wins,
             lp, in_promo, promo_games_left, promo_wins, promo_needed,
             wins, losses)
    /\ probe = << >>
    /\ probed = << >>
    /\ sim \in Configs
    /\ players \in Rosters
    /\ rng \in RngStarts
    /\ pc = "idle"
    /\ matches \in BatchSizes
    /\ seed \in Seeds
    /\ left = 0
    /\ records = << >>
    /\ run = 1
    /\ roster0 = players
    /\ first = [records |-> << >>, players |-> << >>]
    /\ NoSave

\* run_batch, lines 64-66
RunBatch ==
    /\ pc = "idle"
    /\ rng' = IF seed # << >> THEN seed_state(seed[1]) ELSE rng
    /\ records' = << >>
    /\ left' = batch_rounds(matches)
    /\ pc' = "loop"
    /\ UNCHANGED << fsVars, playerVars, now, series, probe, probed,
                    sim, players, matches, seed, run, roster0, first >>

\* run_batch, lines 67-73: one round with a pair
SimulateMatch ==
    /\ pc = "loop"
    /\ left > 0
    /\ Len(players) >= 2
    /\ now' \in { now, now + 1 }
    /\ players' = [players EXCEPT
                      ![sample_first(rng, Len(players))] = AfterA(now'),
                      ![sample_second(rng, Len(players))] = AfterB(now')]
    /\ records' = Append(records, MatchRecord(now'))
    /\ rng' = rng_next(DrawState)
    /\ left' = left - 1
    /\ UNCHANGED << fsVars, playerVars, series, probe, probed,
                    sim, pc, matches, seed, run, roster0, first >>

\* run_batch, lines 68-70: no pair, break
BreakBatch ==
    /\ pc = "loop"
    /\ left > 0
    /\ Len(players) < 2
    /\ pc' = "done"
    /\ UNCHANGED << fsVars, playerVars, now, series, probe, probed,
                    sim, players, rng, matches, seed, left, records,
                    run, roster0, first >>

\* run_batch, line 74
ReturnBatch ==
    /\ pc = "loop"
    /\ left = 0
    /\ pc' = "done"
    /\ UNCHANGED << fsVars, playerVars, now, series, probe, probed,
                    sim, players, rng, matches, seed, left, records,
                    run, roster0, first >>

\* the same batch is asked again of a Simulator built on the same roster
SecondRun ==
    /\ pc = "done"
    /\ run = 1
    /\ first' = [records |-> records, players |-> players]
    /\ players' = roster0
    /\ run' = 2
    /\ pc' = "idle"
    /\ UNCHANGED << fsVars, playerVars, now, series, probe, probed,
                    sim, rng, matches, seed, left, records, roster0 >>

\* Simulator.apply_decay
DecayPassCall(inactive_seconds) ==
    /\ now' \in { now, now + 1 }
    /\ players' = [i \in DOMAIN players |->
                      decay_one(sim, players[i], now', inactive_seconds)]
    /\ pc' = "swept"
    /\ UNCHANGED << fsVars, playerVars, series, probe, probed,
                    sim, rng, matches, seed, left, records, run, roster0, first >>

DecayPass ==
    \E inactive_seconds \in Thresholds :
        /\ pc = "done"
        /\ run = 2
        /\ DecayPassCall(inactive_seconds)

NextBatch ==
    RunBatch \/ SimulateMatch \/ BreakBatch \/ ReturnBatch \/ SecondRun \/ DecayPass

SpecBatch == InitBatch /\ [][NextBatch]_vars

\* run_batch, lines 67-73: a round with a pair as the loop counter sees it
LoopRound ==
    /\ pc = "loop"
    /\ left > 0
    /\ Len(players) >= 2
    /\ left' = left - 1
    /\ pc' = pc

\* run_batch has no suspension points: once called it takes every step it
\* can, round after round, up to its return
FairSpecBatch ==
    /\ SpecBatch
    /\ WF_vars(RunBatch)
    /\ WF_<< pc, left >>(LoopRound)
    /\ WF_vars(BreakBatch)
    /\ WF_vars(ReturnBatch)

(***************************************************************************)
(* src/players.py: to_dict / from_dict.  A dict is a function from keys to  *)
(* values; the int(), float(), bool(), list() and dict() calls copy values   *)
(* that already have that type.                                             *)
(***************************************************************************)
\* Player.to_dict
to_dict(p) ==
    [id |-> p.id,
     name |-> p.name,
     rating |-> p.rating,
     win_streak |-> p.win_streak,
     last_active |-> p.last_active,
     history |-> p.history,
     tier |-> p.tier,
     placed |-> p.placed,
     placement_games_played |-> p.placement_games_played,
     placement_games_required |-> p.placement_games_required,
     placement_wins |-> p.placement_wins,
     lp |-> p.lp,
     in_promo |-> p.in_promo,
     promo_games_left |-> p.promo_games_left,
     promo_wins |-> p.promo_wins,
     promo_needed |-> p.promo_needed,
     wins |-> p.wins,
     losses |-> p.losses]

\* d.get(key, default)
get(d, key, default) == IF key \in DOMAIN d THEN d[key] ELSE default

\* f"Player_{id}"
DefaultNames == << "Player_0", "Player_1", "Player_2", "Player_3", "Player_4" >>
default_name(id) == DefaultNames[id + 1]

\* from_dict that derives the tier from the rating instead of reading it
from_dict_derived_tier(d, t) ==
    [id |-> get(d, "id", 0),
     name |-> get(d, "name", default_name(get(d, "id", 0))),
     rating |-> get(d, "rating", DEFAULT_RATING),
     win_streak |-> get(d, "win_streak", 0),
     last_active |-> get(d, "last_active", t),
     history |-> get(d, "history", << >>),
     tier |-> rating_to_tier(get(d, "rating", DEFAULT_RATING)),
     placed |-> get(d, "placed", FALSE),
     placement_games_played |-> get(d, "placement_games_played", 0),
     placement_games_required |-> get(d, "placement_games_required", 0),
     placement_wins |-> get(d, "placement_wins", 0),
     lp |-> get(d, "lp", 0),
     in_promo |-> get(d, "in_promo", FALSE),
     promo_games_left |-> get(d, "promo_games_left", 0),
     promo_wins |-> get(d, "promo_wins", 0),
     promo_needed |-> get(d, "promo_needed", 0),
     wins |-> get(d, "wins", 0),
     losses |-> get(d, "losses", 0)]

\* Player.from_dict, time.time() reading t
from_dict(d, t) ==
    [id |-> get(d, "id", 0),
     name |-> get(d, "name", default_name(get(d, "id", 0))),
     rating |-> get(d, "rating", DEFAULT_RATING),
     win_streak |-> get(d, "win_streak", 0),
     last_active |-> get(d, "last_active", t),
     history |-> get(d, "history", << >>),
     tier |-> get(d, "tier", rating_to_tier(get(d, "rating", DEFAULT_RATING))),
     placed |-> get(d, "placed", FALSE),
     placement_games_played |-> get(d, "placement_games_played", 0),
     placement_games_required |-> get(d, "placement_games_required", 0),
     placement_wins |-> get(d, "placement_wins", 0),
     lp |-> get(d, "lp", 0),
     in_promo |-> get(d, "in_promo", FALSE),
     promo_games_left |-> get(d, "promo_games_left", 0),
     promo_wins |-> get(d, "promo_wins", 0),
     promo_needed |-> get(d, "promo_needed", 0),
     wins |-> get(d, "wins", 0),
     losses |-> get(d, "losses", 0)]

(***************************************************************************)
(* src/players.py: save_players.  A file is missing, or holds the entries   *)
(* written to it so far and whether the JSON text was written to its end.   *)
(* Every file operation may raise.                                          *)
(***************************************************************************)
\* a path with no file
NoFile == [exists |-> FALSE, entries |-> << >>, complete |-> FALSE]

\* open(path, "w"): the file is created or cut to nothing
Truncated == [exists |-> TRUE, entries |-> << >>, complete |-> FALSE]

\* a file holding the whole JSON text of a payload
WholeFile(payload) == [exists |-> TRUE, entries |-> payload, complete |-> TRUE]

\* save_players, line 280
PayloadOf(roster) == [i \in DOMAIN roster |-> to_dict(roster[i])]

\* json.dump(payload, fh) and the close of the with block, one write at a
\* time: the next entry, or the end of the text once every entry is out
write_step(content, payload) ==
    IF Len(content.entries) < Len(payload)
    THEN [content EXCEPT !.entries = Append(@, payload[Len(@) + 1])]
    ELSE [content EXCEPT !.complete = TRUE]

\* what the target held before the call: nothing, or a roster saved earlier
Persisted == { NoFile } \cup { WholeFile(PayloadOf(r)) : r \in Rosters }

InitSave ==
    /\ now = 0
    /\ series = 0
    /\ Holds(NewPlayer(now, DEFAULT_RATING, 0),
             rating, win_streak, last_active, history, tier, placed,
             placement_games_played, placement_games_required, placement_wins,
             lp, in_promo, promo_games_left, promo_wins, promo_needed,
             wins, losses)
    /\ probe = << >>
    /\ probed = << >>
    /\ NoSimulator
    /\ \E old \in Persisted, roster \in Rosters :
          /\ disk = [path |-> old, tmp |-> NoFile]
          /\ save = [pc |-> "idle", players |-> roster, payload |-> << >>,
                     persisted |-> old]

\* save_players, lines 279-281
SaveCall ==
    /\ save.pc = "idle"
    /\ save' = [save EXCEPT !.pc = "open_tmp", !.payload = PayloadOf(save.players)]
    /\ UNCHANGED << playerVars, now, series, probe, probed, simVars, disk >>

\* save_players, line 282: open(tmp, "w")
OpenTmp ==
    /\ save.pc = "open_tmp"
    /\ \E ok \in BOOLEAN :
          IF ok
          THEN /\ disk' = [disk EXCEPT !.tmp = Truncated]
               /\ save' = [save EXCEPT !.pc = "write_tmp"]
          ELSE /\ disk' = disk
               /\ save' = [save EXCEPT !.pc = "raised"]
    /\ UNCHANGED << playerVars, now, series, probe, probed, simVars >>

\* save_players, lines 282-283: json.dump into the temporary file
WriteTmp ==
    /\ save.pc = "write_tmp"
    /\ \E ok \in BOOLEAN :
          IF ok
          THEN /\ disk' = [disk EXCEPT !.tmp = write_step(@, save.payload)]
               /\ save' = [save EXCEPT !.pc = IF disk'.tmp.complete
                                              THEN "replace" ELSE "write_tmp"]
          ELSE /\ disk' = disk
               /\ save' = [save EXCEPT !.pc = "raised"]
    /\ UNCHANGED << playerVars, now, series, probe, probed, simVars >>

\* save_players, lines 285-289: os.replace(tmp, path), or its except branch
Replace ==
    /\ save.pc = "replace"
    /\ \E ok \in BOOLEAN :
          IF ok
          THEN /\ disk' = [path |-> disk.tmp, tmp |-> NoFile]
               /\ save' = [save EXCEPT !.pc = "returned"]
          ELSE /\ disk' = disk
               /\ save' = [save EXCEPT !.pc = "fallback_open"]
    /\ UNCHANGED << playerVars, now, series, probe, probed, simVars >>

\* save_players, line 291: open(path, "w")
FallbackOpen ==
    /\ save.pc = "fallback_open"
    /\ \E ok \in BOOLEAN :
          IF ok
          THEN /\ disk' = [disk EXCEPT !.path = Truncated]
               /\ save' = [save EXCEPT !.pc = "fallback_write"]
          ELSE /\ disk' = disk
               /\ save' = [save EXCEPT !.pc = "raised"]
    /\ UNCHANGED << playerVars, now, series, probe, probed, simVars >>

\* save_players, lines 291-292: json.dump into the target itself
FallbackWrite ==
    /\ save.pc = "fallback_write"
    /\ \E ok \in BOOLEAN :
          IF ok
          THEN /\ disk' = [disk EXCEPT !.path = write_step(@, save.payload)]
               /\ save' = [save EXCEPT !.pc = IF disk'.path.complete
                                              THEN "returned" ELSE "fallback_write"]
          ELSE /\ disk' = disk
               /\ save' = [save EXCEPT !.pc = "raised"]
    /\ UNCHANGED << playerVars, now, series, probe, probed, simVars >>

NextSave ==
    SaveCall \/ OpenTmp \/ WriteTmp \/ Replace \/ FallbackOpen \/ FallbackWrite

SpecSave == InitSave /\ [][NextSave]_vars

(***************************************************************************)
(* two_player_updates on its own: one call on arguments drawn from the      *)
(* ratings, results, k factors and streak bonuses below.                    *)
(***************************************************************************)
EloRatings == { MIN_RATING, 1000 * U, DEFAULT_RATING, 1550 * U, 2400 * U }
EloFactors == { 16, 32, 40 }
EloBonuses == { 0, 10, 30 }

InitElo ==
    /\ now = 0
    /\ series = 0
    /\ Holds(NewPlayer(now, DEFAULT_RATING, 0),
             rating, win_streak, last_active, history, tier, placed,
             placement_games_played, placement_games_required, placement_wins,
             lp, in_promo, promo_games_left, promo_wins, promo_needed,
             wins, losses)
    /\ probe \in EloRatings \X EloRatings \X Results \X EloFactors
                     \X EloBonuses \X EloBonuses
    /\ probed = << >>
    /\ NoSimulator
    /\ NoSave

PairedUpdate ==
    /\ probed = << >>
    /\ probed' = two_player_updates(probe[1], probe[2], probe[3], probe[4],
                                    probe[5], probe[6])
    /\ UNCHANGED << playerVars, now, series, probe, simVars, fsVars >>

NextElo == PairedUpdate

SpecElo == InitElo /\ [][NextElo]_vars

(***************************************************************************)
(* Vocabulary of the properties.                                           *)
(***************************************************************************)
\* Divisions are listed worst to best: "IV" is rank 0 and "I" is rank 3.
DivisionRank(d) == DivIndex(d)

\* (tier index, division rank) of t is lexicographically <= that of u
LadderLeq(t, u) ==
    \/ TierIndex(t.tier) < TierIndex(u.tier)
    \/ /\ TierIndex(t.tier) = TierIndex(u.tier)
       /\ DivisionRank(t.division) <= DivisionRank(u.division)

LadderLess(t, u) == LadderLeq(t, u) /\ ~LadderLeq(u, t)

SameRank(t, u) == t.tier = u.tier /\ t.division = u.division

\* A best-of-3 series is one game old: that game was won / was lost.
OneGameWon == in_promo /\ promo_games_left = 2 /\ promo_wins = 1
OneGameLost == in_promo /\ promo_games_left = 2 /\ promo_wins = 0

\* C1: in every state the stored tier and division are those rating_to_tier
\* gives for the current rating.
TierMatchesRating == SameRank(tier, rating_to_tier(rating))

\* C2: whenever the player is not in promo, 0 <= lp < 100.
LpBelowHundredOutsidePromo == ~in_promo => (0 <= lp /\ lp < 100)

\* C3: the second of two promo wins (apply_lp with a positive amount) resolves
\* the best-of-3 series as a success: not in promo any more, tier/division
\* advanced, lp = 0.
TwoPromoWinsPromote ==
    [][\A amount \in LpAmounts :
          (OneGameWon /\ amount > 0 /\ ApplyLpCall(amount))
              => (~in_promo' /\ LadderLess(tier, tier') /\ lp' = 0)]_vars

\* C4: the second of two promo losses, given as apply_lp(0) or as a lost match
\* recorded with lp_change = 0, resolves the series as a failure: not in promo
\* any more, lp reduced by 50 with floor 0, rating reduced by 10 with floor 100.
TwoPromoLossesDemote ==
    [][/\ (OneGameLost /\ ApplyLpCall(0))
            => /\ ~in_promo'
               /\ lp' = Max(0, lp - 50)
               /\ rating' = Max(MIN_RATING, rating - 10 * U)
       /\ \A opponent_id \in Opponents, delta \in Deltas, placement \in BOOLEAN :
            (OneGameLost /\ RecordMatchCall(opponent_id, LOSS, delta, 0, placement))
              => /\ ~in_promo'
                 /\ lp' = Max(0, lp - 50)
                 /\ rating' = Max(MIN_RATING, Max(MIN_RATING, rating + delta) - 10 * U)
      ]_vars

\* C5: apply_lp(a) on a player not in promo with LP p: when max(0, p + a) >= 100
\* it starts a series (in_promo, 3 games left, 2 needed, 0 wins) and keeps
\* lp = max(0, p + a - 100); otherwise it stays out of promo with lp = max(0, p + a).
LpOverflowEntersPromo ==
    [][\A amount \in LpAmounts :
          (~in_promo /\ ApplyLpCall(amount))
              => IF Max(0, lp + amount) >= 100
                 THEN /\ in_promo'
                      /\ promo_games_left' = 3
                      /\ promo_needed' = 2
                      /\ promo_wins' = 0
                      /\ lp' = Max(0, lp + amount - 100)
                 ELSE /\ ~in_promo'
                      /\ lp' = Max(0, lp + amount)]_vars

\* a series just entered from lp = 50 with amount 250: 200 LP carried over
EnteredPromoWithCarry ==
    /\ in_promo /\ promo_games_left = 3 /\ promo_wins = 0 /\ promo_needed = 2
    /\ lp = 200

\* C6: the rating is never below MIN_RATING.
RatingNeverBelowMin == rating >= MIN_RATING

\* a match was recorded, a series was played to its end and it failed at the floor
FailedPromoAtFloor ==
    /\ rating = MIN_RATING /\ Len(history) > 0
    /\ series > 0 /\ ~in_promo /\ lp = 100

\* C7: placement_wins <= placement_games_played <= placement_games_required.
PlacementCountersOrdered ==
    /\ placement_wins <= placement_games_played
    /\ placement_games_played <= placement_games_required

\* The player resolve_promo hands to promote_to_next_division when the series
\* the player is in ends in a success at the next apply_lp call.
LastGameDecides == in_promo /\ promo_games_left = 1 /\ promo_wins >= 1

Promoted ==
    promote_to_next_division(reset_promo(Self))

\* C8: promote_to_next_division moves one step up the ladder, divisions ordered
\* worst to best "IV" < "III" < "II" < "I": below the best division the division
\* becomes the next better one of the same tier; from the best division of a
\* tier that has a successor the player moves to the next tier's lowest division
\* with rating = next tier minimum + 10; either way rating_to_tier maps the new
\* rating to the new (tier, division).
PromoteOneStepUp ==
    (LastGameDecides /\ TierMatchesRating) =>
        LET q == Promoted
            idx == TierIndex(tier.tier)
            rank == DivisionRank(tier.division)
        IN  IF rank < 3
            THEN /\ q.tier.tier = tier.tier
                 /\ DivisionRank(q.tier.division) = rank + 1
                 /\ SameRank(rating_to_tier(q.rating), q.tier)
            ELSE (idx + 1 < NumTiers) =>
                 /\ q.tier.tier = TierAt(idx + 1).name
                 /\ DivisionRank(q.tier.division) = 0
                 /\ q.rating = TierAt(idx + 1).min + 10 * U
                 /\ SameRank(rating_to_tier(q.rating), q.tier)

\* C9: when a player in the top tier and its top division wins a promo series,
\* tier and division stay as they are and the rating grows by exactly 30.
TopOfLadder ==
    /\ TierIndex(tier.tier) = NumTiers - 1
    /\ DivisionRank(tier.division) = 3
    /\ TierMatchesRating

TopPromotionAddsThirty ==
    [][\A amount \in LpAmounts :
          ( /\ LastGameDecides
            /\ TopOfLadder
            /\ promo_wins + (IF amount > 0 THEN 1 ELSE 0) >= promo_needed
            /\ ApplyLpCall(amount) )
              => (SameRank(tier', tier) /\ rating' = rating + 30 * U)]_vars

\* C10: rating_to_tier is monotonic: r1 <= r2 implies that the (tier index,
\* division rank) of rating_to_tier(r1) is lexicographically <= that of
\* rating_to_tier(r2).
RatingToTierMonotonic ==
    (probed # << >> /\ probe[1] <= probe[2]) => LadderLeq(probed[1], probed[2])

\* C11: in every tier but the top one, a rating in the lowest quarter of the
\* tier's span (the tier minimum included) gets the lowest division "IV" and a
\* rating in the highest quarter gets the highest division "I"; rating 1000 is
\* (Iron, "IV").
QuartersMapToDivisions ==
    probed # << >> =>
        LET r == probe[1]
            idx == LocateTier(r)
        IN  /\ (idx + 1 < NumTiers /\ r >= TierAt(idx).min) =>
                 LET span == TierAt(idx + 1).min - TierAt(idx).min
                     rel4 == 4 * (r - TierAt(idx).min)
                 IN  /\ rel4 < span => DivisionRank(probed[1].division) = 0
                     /\ rel4 >= 3 * span => DivisionRank(probed[1].division) = 3
            /\ r = 1000 * U =>
                 (probed[1].tier = "Iron" /\ DivisionRank(probed[1].division) = 0)

\* C12: rating_to_tier(1995) is Challenger with the top division "I".
SampleNearTopIsChallenger ==
    (probed # << >> /\ probe[1] = 1995 * U) =>
        (probed[1].tier = "Challenger" /\ DivisionRank(probed[1].division) = 3)

\* C13: Provisional -> Placed <-> InPromo: a record_match call leaves the player
\* in a promo series only if its placement is complete, and a call that ends a
\* series leaves a placed player out of promo.
PromoOnlyWhenPlaced ==
    [][\A opponent_id \in Opponents, result \in Results, delta \in SeasonDeltas,
          lp_change \in SeasonLpChanges, placement \in BOOLEAN :
          RecordMatchCall(opponent_id, result, delta, lp_change, placement)
              => /\ in_promo' => placed'
                 /\ (in_promo /\ ~in_promo') => placed']_vars

\* C14: once placed is true it stays true, and placement_games_played and
\* placement_wins never change again, whatever call is made.
PlacedIsMonotone ==
    [][placed => /\ placed'
                 /\ placement_games_played' = placement_games_played
                 /\ placement_wins' = placement_wins]_vars

\* the one required placement game was played and another match followed
PlayedOnAfterPlacement ==
    /\ placed /\ placement_games_required = 1 /\ placement_games_played = 1
    /\ Len(history) = 2

\* C15: every record_match call appends exactly one entry to the history and
\* leaves the earlier entries as they were, so the history is as long as the
\* number of record_match calls (the clock ticks once per call); apply_lp and
\* apply_decay leave the history unchanged.
HistoryAppendOnly ==
    /\ [](Len(history) = now)
    /\ [][/\ \A opponent_id \in Opponents, result \in Results, delta \in SeasonDeltas,
                lp_change \in SeasonLpChanges, placement \in BOOLEAN :
                RecordMatchCall(opponent_id, result, delta, lp_change, placement)
                    => /\ Len(history') = Len(history) + 1
                       /\ SubSeq(history', 1, Len(history)) = history
                       /\ history'[Len(history')] = [time |-> now',
                                                     opponent |-> opponent_id,
                                                     result |-> result,
                                                     delta |-> delta]
          /\ \A amount \in SeasonLpAmounts :
                ApplyLpCall(amount) => history' = history
          /\ \A decay_amount \in SeasonDecayAmounts :
                ApplyDecayCall(decay_amount) => history' = history]_vars

\* two matches are on record, the second one a draw that ended a promo series
TwoMatchesOnRecord ==
    /\ Len(history) = 2 /\ history[2].result = DRAW
    /\ series > 0 /\ ~in_promo

\* C16: two runs of run_batch(matches=n, seed=s) on the same initial roster
\* return the same ordered records, equal in every field, and leave the same
\* roster.
BatchIsDeterministic ==
    (run = 2 /\ pc = "done" /\ seed # << >>)
        => /\ records = first.records
           /\ players = first.players

\* C17 as stated: run_batch(n) returns at most n records, exactly n on a
\* roster of at least 2 when n >= 0, and none, with no player changed, on a
\* roster of fewer than 2.
BatchReturnsAtMostN ==
    pc = "done"
        => /\ Len(records) <= matches
           /\ (Len(players) >= 2 /\ matches >= 0) => Len(records) = matches
           /\ Len(players) < 2 => (records = << >> /\ players = roster0)

\* C17 amended: run_batch(n) always terminates and returns at most max(n, 0)
\* records: exactly n on a roster of at least 2 when n >= 0, none when n < 0,
\* and none, with no player changed, on a roster of fewer than 2.
BatchTerminatesBounded ==
    /\ [](pc = "done"
            => /\ Len(records) <= Max(matches, 0)
               /\ Len(players) >= 2 => Len(records) = Max(matches, 0)
               /\ Len(players) < 2 => (records = << >> /\ players = roster0))
    /\ (pc = "idle") ~> (pc = "done")

\* a batch of two matches has returned both records
BatchOfTwoReturned ==
    /\ pc = "done" /\ matches = 2
    /\ Len(players) >= 2 /\ Len(records) = 2

\* the LP, promo and placement fields of a player
LpAndPlacement(p) ==
    << p.lp, p.in_promo, p.promo_games_left, p.promo_wins, p.promo_needed,
       p.placed, p.placement_games_played, p.placement_wins >>

\* C18: during and after any run_batch, every player's lp, in_promo,
\* promo_games_left, promo_wins, promo_needed, placed, placement_games_played
\* and placement_wins are what they were before the batch.
BatchLeavesLpAndPlacement ==
    \A i \in DOMAIN players :
        LpAndPlacement(players[i]) = LpAndPlacement(roster0[i])

\* a player who was in a promo series with LP has played a whole batch
PromoPlayerPlayedBatch ==
    /\ pc = "done" /\ records # << >>
    /\ \E i \in DOMAIN players :
          /\ players[i].in_promo /\ players[i].lp > 0
          /\ Len(players[i].history) = Len(records)

\* C19: apply_decay with an amount <= 0 leaves every field of the player as
\* it was; and a decay pass leaves every player as it was whose inactivity
\* does not exceed the threshold, and all of them when decay_per_day is 0.
DecayNoOp ==
    /\ [](\A i \in DOMAIN players : \A d \in { -5 * U, 0 } :
             apply_decay(players[i], d) = players[i])
    /\ [][\A inactive_seconds \in Thresholds :
             (pc = "done" /\ DecayPassCall(inactive_seconds))
                 => \A i \in DOMAIN players :
                       (\/ sim.decay_per_day = 0
                        \/ now' - players[i].last_active <= inactive_seconds)
                           => players'[i] = players[i]]_vars

\* a decay pass with a positive decay_per_day ran a day after a player was
\* last active and spared it: its tier is still the one it was created with
SweptButSpared ==
    /\ pc = "swept" /\ sim.decay_per_day > 0
    /\ \E i \in DOMAIN players :
          /\ now > players[i].last_active
          /\ players[i].tier # rating_to_tier(players[i].rating)

\* a dict without one of its keys
Without(d, key) == [x \in DOMAIN d \ { key } |-> d[x]]

\* the documented defaults of absent fields
DocumentedDefaults ==
    [rating |-> DEFAULT_RATING, win_streak |-> 0, history |-> << >>,
     placed |-> FALSE, placement_games_played |-> 0,
     placement_games_required |-> 0, placement_wins |-> 0, lp |-> 0,
     in_promo |-> FALSE, promo_games_left |-> 0, promo_wins |-> 0,
     promo_needed |-> 0, wins |-> 0, losses |-> 0]

\* C20: from_dict(to_dict(p)) equals p in every field, for every player of
\* the roster; a record without one field loads that field with its
\* documented default and the tier, when absent, as derived from the rating;
\* the empty record loads as an unplaced 1500 player with zero counters.
PersistenceRoundTrips ==
    /\ \A i \in DOMAIN players :
          /\ from_dict(to_dict(players[i]), now) = players[i]
          /\ \A key \in DOMAIN DocumentedDefaults :
                from_dict(Without(to_dict(players[i]), key), now)
                    = [players[i] EXCEPT
                          ![key] = DocumentedDefaults[key]]
          /\ from_dict(Without(to_dict(players[i]), "tier"), now)
                = [players[i] EXCEPT !.tier = rating_to_tier(players[i].rating)]
    /\ from_dict(<< >>, now)
          = [id |-> 0, name |-> "Player_0", last_active |-> now,
             tier |-> rating_to_tier(DEFAULT_RATING)] @@ DocumentedDefaults

\* a player in a promo series with a win and a loss on record is saved
PromoPlayerWithRecordSaved ==
    \E i \in DOMAIN players :
        /\ players[i].in_promo
        /\ players[i].wins = 1 /\ players[i].losses = 1
        /\ Len(players[i].history) = 2

\* C21: at every moment of a save the target holds either the whole old
\* roster or the whole new one, and a save that raises leaves the target as
\* it was before the call.
SaveIsAllOrNothing ==
    save.persisted.exists
        => /\ disk.path \in { save.persisted, WholeFile(PayloadOf(save.players)) }
           /\ save.pc = "raised" => disk.path = save.persisted

\* C22: the two deltas two_player_updates returns sum to zero, for every
\* pair of ratings, every result, every k and every pair of streak bonuses,
\* also when the bonus scales the first side's gain.
PairedUpdateZeroSum ==
    probed # << >> => probed[1] + probed[2] = 0

\* a call whose first delta is a gain that the streak bonus made larger
BonusScaledGain ==
    /\ probed # << >>
    /\ probe[5] > 0 /\ probe[6] > 0
    /\ probed[1] > base_delta(probe[1], probe[2], probe[3], probe[4])

\* C23: while in_promo, promo_needed = 2, 1 <= promo_games_left <= 3 and
\* promo_wins <= 3 - promo_games_left; while not in promo the three counters
\* are 0; a call made during a series either leaves it in progress, with lp
\* as it was and at most one game and one win counted, or ends it, and it
\* ends it exactly when it plays the last game left; the apply_lp call that
\* plays the last game is a success (lp = 0, rating that of the promotion)
\* iff the wins including this game reach promo_needed, else a failure
\* (lp cut by 50, rating cut by 10, each with its floor).
PromoCountersConsistent ==
    /\ [](IF in_promo
          THEN /\ promo_needed = 2
               /\ 1 <= promo_games_left /\ promo_games_left <= 3
               /\ promo_wins <= 3 - promo_games_left
          ELSE /\ promo_games_left = 0 /\ promo_wins = 0 /\ promo_needed = 0)
    /\ [][in_promo
            => \/ /\ in_promo'
                  /\ lp' = lp
                  /\ promo_games_left' \in { promo_games_left, promo_games_left - 1 }
                  /\ promo_wins' \in { promo_wins, promo_wins + 1 }
               \/ /\ ~in_promo'
                  /\ promo_games_left = 1]_vars
    /\ [][\A amount \in LpAmounts :
             (in_promo /\ ApplyLpCall(amount))
                 => IF promo_games_left > 1
                    THEN in_promo' /\ promo_games_left' = promo_games_left - 1
                    ELSE /\ ~in_promo'
                         /\ IF promo_wins + (IF amount > 0 THEN 1 ELSE 0) >= promo_needed
                            THEN lp' = 0 /\ rating' = Promoted.rating
                            ELSE /\ lp' = Max(0, lp - 50)
                                 /\ rating' = Max(MIN_RATING, rating - 10 * U)]_vars

\* a series was played to its last game and won: counters back at 0, lp 0,
\* the rating that of the promotion out of the top tier
SeriesWonAndReset ==
    /\ series > 0 /\ ~in_promo
    /\ promo_games_left = 0 /\ promo_wins = 0 /\ promo_needed = 0
    /\ lp = 0 /\ rating = 2085 * U

\* C24: a call that ends a promo series as a success leaves the rating at
\* least where it was just before the series was resolved: for apply_lp the
\* rating before the call, for record_match max(100, rating + delta).
PromotionNeverLowersRating ==
    [][/\ \A amount \in LpAmounts :
             ( /\ LastGameDecides
               /\ promo_wins + (IF amount > 0 THEN 1 ELSE 0) >= promo_needed
               /\ ApplyLpCall(amount) )
                 => rating' >= rating
       /\ \A opponent_id \in Opponents, result \in Results, delta \in Deltas,
             lp_change \in LpChanges, placement \in BOOLEAN :
             ( /\ LastGameDecides
               /\ lp_change # 0
               /\ promo_wins + (IF lp_change > 0 THEN 1 ELSE 0) >= promo_needed
               /\ RecordMatchCall(opponent_id, result, delta, lp_change, placement) )
                 => rating' >= Max(MIN_RATING, rating + delta)]_vars

\* the sum of a sequence of numbers
RECURSIVE SeqSum(_)
SeqSum(s) == IF s = << >> THEN 0 ELSE s[1] + SeqSum(Tail(s))

\* C25: on a roster that starts with no wins, no losses and empty histories,
\* once a batch has produced m records the wins of the roster sum to m, the
\* losses sum to m, the history lengths sum to 2 * m and every player's
\* wins + losses is the length of its history; and every match leaves one
\* participant's win_streak one higher, the other's at 0 and nobody else's
\* changed.
BatchConservesWinsAndLosses ==
    /\ [](pc \in { "loop", "done", "swept" }
            => /\ SeqSum([i \in DOMAIN players |-> players[i].wins]) = Len(records)
               /\ SeqSum([i \in DOMAIN players |-> players[i].losses]) = Len(records)
               /\ SeqSum([i \in DOMAIN players |-> Len(players[i].history)])
                     = 2 * Len(records)
               /\ \A i \in DOMAIN players :
                     players[i].wins + players[i].losses = Len(players[i].history))
    /\ [][Len(records') = Len(records) + 1
            => \E i \in DOMAIN players : \E j \in DOMAIN players \ { i } :
                  /\ players'[i].win_streak = players[i].win_streak + 1
                  /\ players'[j].win_streak = 0
                  /\ Len(players'[j].history) = Len(players[j].history) + 1
                  /\ \A h \in DOMAIN players \ { i, j } :
                        players'[h] = players[h]]_vars

\* a batch of two matches is over and one player won both
WonBothMatches ==
    /\ pc = "done" /\ Len(records) = 2
    /\ \E i \in DOMAIN players :
          players[i].win_streak = 2 /\ players[i].wins = 2

====
